---- MODULE Spec2Model ----
(***************************************************************************)
(* Model of bedrock-pr-reviewer's two core subsystems:                     *)
(*   src/bot.ts          Bot.chat / Bot.chat_  (prompt invocation)         *)
(*   src/sopRetriever.ts lazy singletons, embedText, getRelevantSops       *)
(* JavaScript strings are sequences of character tokens; a JavaScript      *)
(* value that may be a string or undefined is a tagged record.             *)
(***************************************************************************)
EXTENDS Integers, Sequences, FiniteSets, TLC

\* ------------------------------------------------------------------ bounds
MaxRetries == 2
MaxItems == 3
NumTasks == 2
MaxSopCalls == 3
MaxCandidates == 4
MaxSops == 3

\* ------------------------------------------------------- JavaScript values
Undefined == [k |-> "undefined"]
Str(s) == [k |-> "string", v |-> s]
EmptyStr == Str(<<>>)

\* truthiness of a string-or-undefined value (`if (x)`)
Truthy(x) == x.k = "string" /\ Len(x.v) > 0

\* String(x) as applied by `+=` when the left operand is not a string
ToStringJS(x) == IF x.k = "undefined" THEN <<"u","n","d","e","f","i","n","e","d">> ELSE x.v

\* x += y  for string-or-undefined x and string y
PlusAssign(x, y) == Str(ToStringJS(x) \o y.v)

\* payloads a tool-call item (or a schema's parameters) can carry
JsonObject == [k |-> "object", key |-> "a", n |-> 1]
JsonCyclic == [k |-> "cyclic"]
JsonValues == {JsonObject, Undefined, JsonCyclic}

\* JSON.stringify: a string, undefined for an undefined argument, or a throw
JSONstringify(x) ==
    CASE x.k = "object" -> [ok |-> TRUE, val |-> Str(<<"{", "\"", x.key, "\"", ":", "1", "}">>)]
      [] x.k = "undefined" -> [ok |-> TRUE, val |-> Undefined]
      [] x.k = "cyclic" -> [ok |-> FALSE, val |-> Undefined]

\* ------------------------------------------------------------ bot.ts: data
\* Ids with both fields absent: `{}` and {parentMessageId: undefined, ...}
NoIds == [parentMessageId |-> Undefined, conversationId |-> Undefined]

NoSchema == [k |-> "undefined"]
JsonSchemas == {NoSchema, [k |-> "schema", parameters |-> JsonObject],
                [k |-> "schema", parameters |-> JsonCyclic]}

\* JSON.stringify(jsonSchema) throws exactly when the parameters cannot be serialized
SchemaSerializable(s) == JSONstringify(s.parameters).ok

Messages == {<<>>, <<"m">>}

\* content items: a text fragment or a tool-call
TextItem(s) == [k |-> "text", text |-> Str(s)]
ToolUseItem(i) == [k |-> "toolUse", input |-> i]
Items == {TextItem(<<>>), TextItem(<<"x">>), TextItem(<<"y">>)}
           \cup {ToolUseItem(i) : i \in JsonValues}

SeqUpTo(S, n) == UNION {[1..m -> S] : m \in 0..n}

RequestIds == {Undefined, Str(<<"r">>)}
CfIds == {Undefined, Str(<<"c">>)}

\* ConverseCommandOutput: output.message (possibly absent), content, $metadata
Responses ==
    [message : {TRUE}, hasContent : {TRUE}, content : SeqUpTo(Items, MaxItems),
     requestId : RequestIds, cfId : CfIds]
    \cup [message : BOOLEAN, hasContent : {FALSE}, content : {<<>>},
          requestId : RequestIds, cfId : CfIds]
NoResponse == [k |-> "undefined"]

VARIABLES
    debug,               \* options.debug
    bedrockRetries,      \* options.bedrockRetries
    botPc,               \* position of the current chat call
    message,             \* chat's message argument
    commandParams,       \* the request chat_ built (a local of the running call)
    attempts,            \* client.send calls made during the current chat call
    response,            \* chat_'s local `response`
    res,                 \* the value chat returned
    raised,              \* chat threw to its caller
    escaped,             \* an exception left chat_ and reached chat's catch
    timingLogged,        \* the response-time line was logged during the call
    serializationFailed, \* JSON.stringify threw during the call's normalization
    exhaustedBefore      \* an earlier chat call used up its retries

botVars == <<debug, bedrockRetries, botPc, message, commandParams, attempts, response,
             res, raised, escaped, timingLogged, serializationFailed, exhaustedBefore>>

VARIABLES
    apiKey,          \* getInput('pinecone_api_key')
    indexSize,       \* number of SOPs stored in the index
    embedder,        \* module-level `embedder`
    pineconeClient,  \* module-level `pineconeClient`
    pineconeIndex,   \* module-level `pineconeIndex`
    sopPc,           \* per task: where its embedText / getRelevantSops call stands
    sopKind,         \* per task: the exported function it called
    sopPending,      \* per task: how the awaited initializePinecone() settled
    sopVector,       \* per task: the encoder's pending or resolved output
    sopQueried,      \* per task: the response pineconeIndex.query resolved with
    sopResult,       \* per task: the value its call returned
    sopRaised,       \* per task: its call rejected to the caller
    sopFailure,      \* per task: the step of the call that failed, if any
    sopSteps,        \* per task: the external steps the call started, in order
    encodersBuilt,   \* pipeline() constructions that succeeded
    encoderFailures, \* pipeline() constructions that were rejected
    clientsBuilt,    \* new Pinecone() constructions that succeeded
    externalCalls,   \* calls made to pipeline, the encoder and the index service
    sopCalls         \* exported calls started so far

sopVars == <<apiKey, indexSize, embedder, pineconeClient, pineconeIndex, sopPc, sopKind,
             sopPending, sopVector, sopQueried, sopResult, sopRaised, sopFailure,
             sopSteps, encodersBuilt, encoderFailures, clientsBuilt, externalCalls,
             sopCalls>>

VARIABLES
    fmtSops,   \* formatSopsForPrompt's argument
    fmtOut,    \* the string it returned, as the sequence of the pieces it is made of
    fmtPc      \* whether the call has been made

fmtVars == <<fmtSops, fmtOut, fmtPc>>

vars == <<botVars, sopVars, fmtVars>>

\* ------------------------------------------------------- bot.ts: operators
EmptyResult == [text |-> EmptyStr, ids |-> NoIds]

NoParams == [k |-> "undefined"]

\* lines 73-107: toolConfig is added exactly when a schema is given
CommandParams(m, s) ==
    [k |-> "params", text |-> <<"IMPORTANT">> \o m, toolConfig |-> s # NoSchema]

\* chat without its catch
chatNoCatch(o) ==
    IF o.thrown THEN [raised |-> TRUE, res |-> EmptyResult]
    ELSE [raised |-> FALSE, res |-> o.value]

\* chat (lines 37-49): chat_'s outcome o is a returned value or a thrown error
chat(o) ==
    IF o.thrown THEN [raised |-> FALSE, res |-> EmptyResult]
    ELSE [raised |-> FALSE, res |-> o.value]

\* one attempt too many
CanRetryOffByOne(made, retries) == made <= retries + 1

\* p-retry: after `made` failed attempts another one follows while made <= retries
CanRetry(made, retries) == made <= retries

\* response.output.message.content || []  (no loop at all without a message)
ContentOf(r) ==
    IF r = NoResponse THEN <<>>
    ELSE IF r.message /\ r.hasContent THEN r.content ELSE <<>>

\* a text fragment replaces the accumulator instead of being appended
ItemStepAssignText(acc, item) ==
    IF item.k = "text" /\ Truthy(item.text) THEN item.text
    ELSE IF item.k = "toolUse"
         THEN IF JSONstringify(item.input).ok
              THEN JSONstringify(item.input).val
              ELSE EmptyStr
         ELSE acc

\* a serialized tool-call input is appended instead of replacing the accumulator
ItemStepAppendTool(acc, item) ==
    IF item.k = "text" /\ Truthy(item.text) THEN PlusAssign(acc, item.text)
    ELSE IF item.k = "toolUse"
         THEN IF JSONstringify(item.input).ok
              THEN PlusAssign(acc, Str(ToStringJS(JSONstringify(item.input).val)))
              ELSE EmptyStr
         ELSE acc

\* the catch of line 134 forgets to reset the accumulator
ItemStepKeepOnThrow(acc, item) ==
    IF item.k = "text" /\ Truthy(item.text) THEN PlusAssign(acc, item.text)
    ELSE IF item.k = "toolUse"
         THEN IF JSONstringify(item.input).ok
              THEN JSONstringify(item.input).val
              ELSE acc
         ELSE acc

\* one iteration of the loop over the content (lines 128-138)
ItemStep(acc, item) ==
    IF item.k = "text" /\ Truthy(item.text) THEN PlusAssign(acc, item.text)
    ELSE IF item.k = "toolUse"
         THEN IF JSONstringify(item.input).ok
              THEN JSONstringify(item.input).val
              ELSE EmptyStr
         ELSE acc

\* the loop of lines 127-139 from item i on, with accumulator acc
RECURSIVE Loop(_, _, _)
Loop(acc, content, i) ==
    IF i > Len(content) THEN acc
    ELSE Loop(ItemStep(acc, content[i]), content, i + 1)

\* lines 123-142: responseText after normalization
ResponseText(r) == Loop(EmptyStr, ContentOf(r), 1)

\* a tool-call item of the response whose serialization throws (line 134)
SerializationThrows(r) ==
    \E i \in 1..Len(ContentOf(r)) :
        /\ ContentOf(r)[i].k = "toolUse"
        /\ ~JSONstringify(ContentOf(r)[i].input).ok

\* the two identifiers are taken from the wrong metadata fields
NewIdsSwapped(r) ==
    IF r = NoResponse THEN NoIds
    ELSE [parentMessageId |-> r.cfId, conversationId |-> r.requestId]

\* lines 146-149
NewIds(r) ==
    IF r = NoResponse THEN NoIds
    ELSE [parentMessageId |-> r.requestId, conversationId |-> r.cfId]

\* ---------------------------------------------------------- bot.ts: actions
BotInit ==
    /\ debug \in BOOLEAN
    /\ bedrockRetries \in 0..MaxRetries
    /\ botPc = "idle"
    /\ message = <<>>
    /\ commandParams = NoParams
    /\ attempts = 0
    /\ response = NoResponse
    /\ res = EmptyResult
    /\ raised = FALSE
    /\ escaped = FALSE
    /\ timingLogged = FALSE
    /\ serializationFailed = FALSE
    /\ exhaustedBefore = FALSE

\* what every chat call sets up before chat_ runs (line 41, fresh locals)
BeginCall(m) ==
    /\ botPc \in {"idle", "returned"}
    /\ message' = m
    /\ response' = NoResponse
    /\ serializationFailed' = FALSE
    /\ UNCHANGED <<debug, bedrockRetries, exhaustedBefore, sopVars, fmtVars>>

\* chat_ settles with outcome o, chat hands its own result to the caller
EndCall(o) ==
    /\ raised' = chat(o).raised
    /\ res' = chat(o).res
    /\ commandParams' = NoParams
    /\ botPc' = "returned"

\* the `!message` test is missing: an empty message is sent like any other
ChatEmptySent(m, s) ==
    /\ BeginCall(m)
    /\ m = <<>>
    /\ commandParams' = CommandParams(m, s)
    /\ attempts' = 1
    /\ escaped' = FALSE
    /\ timingLogged' = FALSE
    /\ res' = EmptyResult
    /\ raised' = FALSE
    /\ botPc' = "awaitSend"

\* lines 57-59: an empty message returns at once
ChatEmpty(m, s) ==
    /\ BeginCall(m)
    /\ m = <<>>
    /\ attempts' = 0
    /\ escaped' = FALSE
    /\ timingLogged' = FALSE
    /\ EndCall([thrown |-> FALSE, value |-> EmptyResult])

\* lines 65-70: in debug mode the schema is serialized for the log, outside any try
ChatLogThrows(m, s) ==
    /\ BeginCall(m)
    /\ m # <<>>
    /\ debug /\ s # NoSchema /\ ~SchemaSerializable(s)
    /\ attempts' = 0
    /\ escaped' = TRUE
    /\ timingLogged' = FALSE
    /\ EndCall([thrown |-> TRUE, value |-> EmptyResult])

\* lines 72-110: build the request and make the first send
ChatSend(m, s) ==
    /\ BeginCall(m)
    /\ m # <<>>
    /\ ~(debug /\ s # NoSchema /\ ~SchemaSerializable(s))
    /\ commandParams' = CommandParams(m, s)
    /\ attempts' = 1
    /\ escaped' = FALSE
    /\ timingLogged' = FALSE
    /\ res' = EmptyResult
    /\ raised' = FALSE
    /\ botPc' = "awaitSend"

\* a send attempt fails and p-retry runs the operation again
SendRetry ==
    /\ botPc = "awaitSend"
    /\ CanRetry(attempts, bedrockRetries)
    /\ attempts' = attempts + 1
    /\ UNCHANGED <<sopVars, fmtVars, debug, bedrockRetries, botPc, message,
                   commandParams, response,
                   res, raised, escaped, timingLogged, serializationFailed,
                   exhaustedBefore>>

\* retry exhaustion forgets the attempts made instead of giving up
SendExhaustedRestarts ==
    /\ botPc = "awaitSend"
    /\ ~CanRetry(attempts, bedrockRetries)
    /\ attempts' = 0
    /\ UNCHANGED <<sopVars, fmtVars, debug, bedrockRetries, botPc, message, commandParams,
                   response, res, raised, escaped, timingLogged, serializationFailed,
                   exhaustedBefore>>

\* the catch of line 115 returns before the response time is logged
SendExhaustedUnlogged ==
    /\ botPc = "awaitSend"
    /\ ~CanRetry(attempts, bedrockRetries)
    /\ response' = NoResponse
    /\ timingLogged' = FALSE
    /\ exhaustedBefore' = TRUE
    /\ serializationFailed' = FALSE
    /\ EndCall([thrown |-> FALSE,
                value |-> [text |-> ResponseText(NoResponse), ids |-> NewIds(NoResponse)]])
    /\ UNCHANGED <<sopVars, fmtVars, debug, bedrockRetries, message, attempts, escaped>>

\* the last allowed attempt fails: p-retry rejects, line 115 catches, and the rest
\* of chat_ (lines 118-150) runs with `response` still undefined
SendExhausted ==
    /\ botPc = "awaitSend"
    /\ ~CanRetry(attempts, bedrockRetries)
    /\ response' = NoResponse
    /\ timingLogged' = TRUE
    /\ exhaustedBefore' = TRUE
    /\ serializationFailed' = FALSE
    /\ EndCall([thrown |-> FALSE,
                value |-> [text |-> ResponseText(NoResponse), ids |-> NewIds(NoResponse)]])
    /\ UNCHANGED <<sopVars, fmtVars, debug, bedrockRetries, message, attempts, escaped>>

\* a send attempt succeeds with response r; the rest of chat_ (lines 118-150) runs
\* without suspending
SendOk(r) ==
    /\ botPc = "awaitSend"
    /\ response' = r
    /\ timingLogged' = TRUE
    /\ serializationFailed' = SerializationThrows(r)
    /\ EndCall([thrown |-> FALSE,
                value |-> [text |-> ResponseText(r), ids |-> NewIds(r)]])
    /\ UNCHANGED <<sopVars, fmtVars, debug, bedrockRetries, message, attempts, escaped,
                   exhaustedBefore>>

BotNext ==
    \/ \E m \in Messages, s \in JsonSchemas : ChatEmpty(m, s)
    \/ \E m \in Messages, s \in JsonSchemas : ChatLogThrows(m, s)
    \/ \E m \in Messages, s \in JsonSchemas : ChatSend(m, s)
    \/ SendRetry
    \/ SendExhausted
    \/ \E r \in Responses : SendOk(r)

\* ------------------------------------------------- sopRetriever.ts: data
Tasks == 1..NumTasks
Null == [k |-> "null"]

\* the query asks for two matches more
TopKFive == 5 + 0

\* line 143
TopK == 3

Min(a, b) == IF a < b THEN a ELSE b

\* the i-th best match of the index; every second one carries no metadata.text
Candidate(i) ==
    [id |-> i, score |-> MaxCandidates + 2 - i,
     metadata |-> IF i % 2 = 1 THEN [text |-> Str(<<"s", i>>)] ELSE [text |-> Undefined]]

\* the index service: the topK nearest neighbours, best first
Query(topK) == [matches |-> [i \in 1..Min(topK, indexSize) |-> Candidate(i)]]

NoMatchesField == [k |-> "noMatches"]

\* lines 153-161: one match becomes one SOP
ToSop(match) ==
    [text |-> IF Truthy(match.metadata.text) THEN match.metadata.text ELSE EmptyStr,
     id |-> match.id, score |-> match.score, metadata |-> match.metadata]

\* lines 147-167: the value returned for a query response
MapMatches(queryResponse) ==
    IF queryResponse = NoMatchesField THEN <<>>
    ELSE IF Len(queryResponse.matches) = 0 THEN <<>>
    ELSE [i \in 1..Len(queryResponse.matches) |-> ToSop(queryResponse.matches[i])]

\* getRelevantSops without its catch
getRelevantSopsNoCatch(o) ==
    IF o.thrown THEN [raised |-> TRUE, value |-> <<>>]
    ELSE [raised |-> FALSE, value |-> o.value]

\* getRelevantSops lines 126, 168-172: o is what the body returned or threw
getRelevantSops(o) ==
    IF o.thrown THEN [raised |-> FALSE, value |-> <<>>]
    ELSE [raised |-> FALSE, value |-> o.value]

\* embedText lines 80, 115-118: an error is logged and thrown again
embedText(o) ==
    IF o.thrown THEN [raised |-> TRUE, value |-> <<>>]
    ELSE [raised |-> FALSE, value |-> o.value]

\* ---------------------------------------------- sopRetriever.ts: actions
SopInit ==
    /\ apiKey \in {<<>>, <<"k">>}
    /\ indexSize \in {0, 2, MaxCandidates}
    /\ embedder = Null
    /\ pineconeClient = Null
    /\ pineconeIndex = Null
    /\ sopPc = [t \in Tasks |-> "idle"]
    /\ sopKind = [t \in Tasks |-> "none"]
    /\ sopPending = [t \in Tasks |-> "none"]
    /\ sopVector = [t \in Tasks |-> Null]
    /\ sopQueried = [t \in Tasks |-> Null]
    /\ sopResult = [t \in Tasks |-> <<>>]
    /\ sopRaised = [t \in Tasks |-> FALSE]
    /\ sopFailure = [t \in Tasks |-> "none"]
    /\ sopSteps = [t \in Tasks |-> <<>>]
    /\ encodersBuilt = 0
    /\ encoderFailures = 0
    /\ clientsBuilt = 0
    /\ externalCalls = 0
    /\ sopCalls = 0

\* a task starts a new exported call with fresh locals
BeginSop(t, kind) ==
    /\ sopPc[t] \in {"idle", "done"}
    /\ sopCalls < MaxSopCalls
    /\ sopCalls' = sopCalls + 1
    /\ sopKind' = [sopKind EXCEPT ![t] = kind]
    /\ sopVector' = [sopVector EXCEPT ![t] = Null]
    /\ sopQueried' = [sopQueried EXCEPT ![t] = Null]
    /\ sopResult' = [sopResult EXCEPT ![t] = <<>>]
    /\ sopRaised' = [sopRaised EXCEPT ![t] = FALSE]
    /\ sopFailure' = [sopFailure EXCEPT ![t] = "none"]
    /\ UNCHANGED <<botVars, fmtVars, apiKey, indexSize>>

\* the call of task t settles: outcome o of the body, failed step f
EndSop(t, o, f) ==
    /\ sopPc' = [sopPc EXCEPT ![t] = "done"]
    /\ sopFailure' = [sopFailure EXCEPT ![t] = f]
    /\ LET r == IF sopKind[t] = "retrieve" THEN getRelevantSops(o) ELSE embedText(o) IN
        /\ sopResult' = [sopResult EXCEPT ![t] = r.value]
        /\ sopRaised' = [sopRaised EXCEPT ![t] = r.raised]

Thrown == [thrown |-> TRUE, value |-> <<>>]
Value(v) == [thrown |-> FALSE, value |-> v]

\* the credential is tested only after the client has been constructed
InitializePineconeLateCheck(t, ctor, index) ==
    IF pineconeClient # Null
    THEN /\ sopPending' = [sopPending EXCEPT ![t] = "ok"]
         /\ UNCHANGED <<pineconeClient, pineconeIndex, clientsBuilt>>
    ELSE IF ~ctor
    THEN /\ sopPending' = [sopPending EXCEPT ![t] = "thrown"]
         /\ UNCHANGED <<pineconeClient, pineconeIndex, clientsBuilt>>
    ELSE /\ pineconeClient' = [k |-> "client", n |-> clientsBuilt + 1]
         /\ clientsBuilt' = clientsBuilt + 1
         /\ IF index /\ apiKey # <<>>
            THEN /\ pineconeIndex' = [k |-> "index", n |-> clientsBuilt + 1]
                 /\ sopPending' = [sopPending EXCEPT ![t] = "ok"]
            ELSE /\ pineconeIndex' = pineconeIndex
                 /\ sopPending' = [sopPending EXCEPT ![t] = "thrown"]

\* a failed pineconeClient.index() puts the client back to null
InitializePineconeResets(t, ctor, index) ==
    IF pineconeClient # Null
    THEN /\ sopPending' = [sopPending EXCEPT ![t] = "ok"]
         /\ UNCHANGED <<pineconeClient, pineconeIndex, clientsBuilt>>
    ELSE IF apiKey = <<>> \/ ~ctor
    THEN /\ sopPending' = [sopPending EXCEPT ![t] = "thrown"]
         /\ UNCHANGED <<pineconeClient, pineconeIndex, clientsBuilt>>
    ELSE /\ clientsBuilt' = clientsBuilt + 1
         /\ IF index
            THEN /\ pineconeClient' = [k |-> "client", n |-> clientsBuilt + 1]
                 /\ pineconeIndex' = [k |-> "index", n |-> clientsBuilt + 1]
                 /\ sopPending' = [sopPending EXCEPT ![t] = "ok"]
            ELSE /\ UNCHANGED <<pineconeClient, pineconeIndex>>
                 /\ sopPending' = [sopPending EXCEPT ![t] = "thrown"]

\* initializePinecone (lines 35-73), which never suspends: ctor and index tell
\* whether new Pinecone() and pineconeClient.index() return or throw
InitializePinecone(t, ctor, index) ==
    IF pineconeClient # Null
    THEN /\ sopPending' = [sopPending EXCEPT ![t] = "ok"]
         /\ UNCHANGED <<pineconeClient, pineconeIndex, clientsBuilt>>
    ELSE IF apiKey = <<>>
    THEN /\ sopPending' = [sopPending EXCEPT ![t] = "thrown"]
         /\ UNCHANGED <<pineconeClient, pineconeIndex, clientsBuilt>>
    ELSE IF ~ctor
    THEN /\ sopPending' = [sopPending EXCEPT ![t] = "thrown"]
         /\ UNCHANGED <<pineconeClient, pineconeIndex, clientsBuilt>>
    ELSE /\ pineconeClient' = [k |-> "client", n |-> clientsBuilt + 1]
         /\ clientsBuilt' = clientsBuilt + 1
         /\ IF index
            THEN /\ pineconeIndex' = [k |-> "index", n |-> clientsBuilt + 1]
                 /\ sopPending' = [sopPending EXCEPT ![t] = "ok"]
            ELSE /\ pineconeIndex' = pineconeIndex
                 /\ sopPending' = [sopPending EXCEPT ![t] = "thrown"]

\* getRelevantSops up to its first await (line 128)
StartRetrieve(t, ctor, index) ==
    /\ BeginSop(t, "retrieve")
    /\ InitializePinecone(t, ctor, index)
    /\ sopPc' = [sopPc EXCEPT ![t] = "afterInit"]
    /\ sopSteps' = [sopSteps EXCEPT ![t] = <<"init">>]
    /\ UNCHANGED <<embedder, encodersBuilt, encoderFailures, externalCalls>>

\* embedText entered (line 81): initializeEmbedder runs up to its await of
\* pipeline(), or returns at once when the encoder exists
EnterEmbedText(t, steps) ==
    IF embedder = Null
    THEN /\ sopPc' = [sopPc EXCEPT ![t] = "awaitPipeline"]
         /\ sopSteps' = [sopSteps EXCEPT ![t] = steps \o <<"pipeline">>]
         /\ externalCalls' = externalCalls + 1
    ELSE /\ sopPc' = [sopPc EXCEPT ![t] = "afterInitEmbedder"]
         /\ sopSteps' = [sopSteps EXCEPT ![t] = steps]
         /\ UNCHANGED externalCalls

\* embedText called directly by a task
StartEmbed(t) ==
    /\ BeginSop(t, "embed")
    /\ EnterEmbedText(t, <<>>)
    /\ UNCHANGED <<embedder, pineconeClient, pineconeIndex, sopPending, encodersBuilt,
                   encoderFailures,
                   clientsBuilt>>

\* line 128 resumes with a rejected initializePinecone: the catch of line 168
InitThrew(t) ==
    /\ sopPc[t] = "afterInit"
    /\ sopPending[t] = "thrown"
    /\ EndSop(t, Thrown, "init")
    /\ UNCHANGED <<botVars, fmtVars, apiKey, indexSize, embedder, pineconeClient,
                   pineconeIndex, sopKind,
                   sopPending, sopVector, sopQueried, sopSteps, encodersBuilt,
                   encoderFailures,
                   clientsBuilt, externalCalls, sopCalls>>

\* the test of line 130 is missing: the call goes on to embed without an index
IndexUnavailableProceeds(t) ==
    /\ sopPc[t] = "afterInit"
    /\ sopPending[t] = "ok"
    /\ pineconeIndex = Null
    /\ EnterEmbedText(t, sopSteps[t])
    /\ UNCHANGED <<botVars, fmtVars, apiKey, indexSize, embedder, pineconeClient,
                   pineconeIndex, sopKind, sopPending, sopVector, sopQueried, sopResult,
                   sopRaised, sopFailure, encodersBuilt, encoderFailures, clientsBuilt,
                   sopCalls>>

\* lines 130-133: initialization was skipped and left no index
IndexUnavailable(t) ==
    /\ sopPc[t] = "afterInit"
    /\ sopPending[t] = "ok"
    /\ pineconeIndex = Null
    /\ EndSop(t, Value(<<>>), "noIndex")
    /\ UNCHANGED <<botVars, fmtVars, apiKey, indexSize, embedder, pineconeClient,
                   pineconeIndex, sopKind,
                   sopPending, sopVector, sopQueried, sopSteps, encodersBuilt,
                   encoderFailures,
                   clientsBuilt, externalCalls, sopCalls>>

\* lines 136-137: the index is there, embedText is called
InitDone(t) ==
    /\ sopPc[t] = "afterInit"
    /\ sopPending[t] = "ok"
    /\ pineconeIndex # Null
    /\ EnterEmbedText(t, sopSteps[t])
    /\ UNCHANGED <<botVars, fmtVars, apiKey, indexSize, embedder, pineconeClient,
                   pineconeIndex, sopKind,
                   sopPending, sopVector, sopQueried, sopResult, sopRaised, sopFailure,
                   encodersBuilt, encoderFailures, clientsBuilt, sopCalls>>

\* line 23: pipeline() resolved, the encoder is stored
PipelineOk(t) ==
    /\ sopPc[t] = "awaitPipeline"
    /\ embedder' = [k |-> "encoder", n |-> encodersBuilt + 1]
    /\ encodersBuilt' = encodersBuilt + 1
    /\ UNCHANGED encoderFailures
    /\ sopPc' = [sopPc EXCEPT ![t] = "afterInitEmbedder"]
    /\ UNCHANGED <<botVars, fmtVars, apiKey, indexSize, pineconeClient, pineconeIndex,
                   sopKind, sopPending,
                   sopVector, sopQueried, sopResult, sopRaised, sopFailure, sopSteps,
                   clientsBuilt, externalCalls, sopCalls>>

\* a rejected construction leaves a broken encoder behind
PipelineFailPoisons(t) ==
    /\ sopPc[t] = "awaitPipeline"
    /\ EndSop(t, Thrown, "pipeline")
    /\ encoderFailures' = encoderFailures + 1
    /\ embedder' = [k |-> "encoder", n |-> 0]
    /\ UNCHANGED <<botVars, fmtVars, apiKey, indexSize, pineconeClient, pineconeIndex, sopKind,
                   sopPending, sopVector, sopQueried, sopSteps, encodersBuilt,
                   clientsBuilt, externalCalls, sopCalls>>

\* lines 25-28: pipeline() rejected; the error passes through embedText's catch
PipelineFail(t) ==
    /\ sopPc[t] = "awaitPipeline"
    /\ EndSop(t, Thrown, "pipeline")
    /\ encoderFailures' = encoderFailures + 1
    /\ UNCHANGED <<botVars, fmtVars, apiKey, indexSize, embedder, pineconeClient,
                   pineconeIndex, sopKind,
                   sopPending, sopVector, sopQueried, sopSteps, encodersBuilt,
                   clientsBuilt, externalCalls, sopCalls>>

\* lines 82-89: embedText resumes after initializeEmbedder and calls the encoder
CallEncoder(t) ==
    /\ sopPc[t] = "afterInitEmbedder"
    /\ embedder # Null
    /\ sopPc' = [sopPc EXCEPT ![t] = "awaitEmbed"]
    /\ sopSteps' = [sopSteps EXCEPT ![t] = @ \o <<"embed">>]
    /\ sopVector' = [sopVector EXCEPT ![t] = [k |-> "promise", by |-> embedder.n]]
    /\ externalCalls' = externalCalls + 1
    /\ UNCHANGED <<botVars, fmtVars, apiKey, indexSize, embedder, pineconeClient,
                   pineconeIndex, sopKind,
                   sopPending, sopQueried, sopResult, sopRaised, sopFailure,
                   encodersBuilt, encoderFailures, clientsBuilt, sopCalls>>

\* the encoder rejected (lines 115-118, then line 168 for getRelevantSops)
EncoderFail(t) ==
    /\ sopPc[t] = "awaitEmbed"
    /\ EndSop(t, Thrown, "embed")
    /\ UNCHANGED <<botVars, fmtVars, apiKey, indexSize, embedder, pineconeClient,
                   pineconeIndex, sopKind,
                   sopPending, sopVector, sopQueried, sopSteps, encodersBuilt,
                   encoderFailures,
                   clientsBuilt, externalCalls, sopCalls>>

\* lines 91-114: the encoder resolved, a direct embedText call returns the vector
EmbedReturn(t) ==
    /\ sopPc[t] = "awaitEmbed"
    /\ sopKind[t] = "embed"
    /\ sopVector' = [sopVector EXCEPT ![t] = [k |-> "vector", by |-> @.by]]
    /\ EndSop(t, Value(<<[k |-> "vector", by |-> sopVector[t].by]>>), "none")
    /\ UNCHANGED <<botVars, fmtVars, apiKey, indexSize, embedder, pineconeClient,
                   pineconeIndex, sopKind,
                   sopPending, sopQueried, sopSteps, encodersBuilt, encoderFailures,
                   clientsBuilt,
                   externalCalls, sopCalls>>

\* lines 137-145: the vector is back in getRelevantSops, the index is queried
QueryIndex(t) ==
    /\ sopPc[t] = "awaitEmbed"
    /\ sopKind[t] = "retrieve"
    /\ sopVector' = [sopVector EXCEPT ![t] = [k |-> "vector", by |-> @.by]]
    /\ sopPc' = [sopPc EXCEPT ![t] = "awaitQuery"]
    /\ sopSteps' = [sopSteps EXCEPT ![t] = @ \o <<"query">>]
    /\ externalCalls' = externalCalls + 1
    /\ UNCHANGED <<botVars, fmtVars, apiKey, indexSize, embedder, pineconeClient,
                   pineconeIndex, sopKind,
                   sopPending, sopQueried, sopResult, sopRaised, sopFailure,
                   encodersBuilt, encoderFailures, clientsBuilt, sopCalls>>

\* a rejected query is issued again until the retry budget is used up
QueryFailRetries(t) ==
    /\ sopPc[t] = "awaitQuery"
    /\ IF Len(SelectSeq(sopSteps[t], LAMBDA x : x = "query")) <= bedrockRetries
       THEN /\ sopSteps' = [sopSteps EXCEPT ![t] = @ \o <<"query">>]
            /\ externalCalls' = externalCalls + 1
            /\ UNCHANGED <<sopPc, sopFailure, sopResult, sopRaised>>
       ELSE /\ EndSop(t, Thrown, "query")
            /\ UNCHANGED <<sopSteps, externalCalls>>
    /\ UNCHANGED <<botVars, fmtVars, apiKey, indexSize, embedder, pineconeClient,
                   pineconeIndex, sopKind, sopPending, sopVector, sopQueried,
                   encodersBuilt, encoderFailures, clientsBuilt, sopCalls>>

\* the query rejected: the catch of line 168
QueryFail(t) ==
    /\ sopPc[t] = "awaitQuery"
    /\ EndSop(t, Thrown, "query")
    /\ UNCHANGED <<botVars, fmtVars, apiKey, indexSize, embedder, pineconeClient,
                   pineconeIndex, sopKind,
                   sopPending, sopVector, sopQueried, sopSteps, encodersBuilt,
                   encoderFailures,
                   clientsBuilt, externalCalls, sopCalls>>

\* lines 147-167: the query resolved with queryResponse
QueryOk(t, queryResponse) ==
    /\ sopPc[t] = "awaitQuery"
    /\ sopQueried' = [sopQueried EXCEPT ![t] = queryResponse]
    /\ sopSteps' = [sopSteps EXCEPT ![t] = @ \o <<"map">>]
    /\ EndSop(t, Value(MapMatches(queryResponse)), "none")
    /\ UNCHANGED <<botVars, fmtVars, apiKey, indexSize, embedder, pineconeClient,
                   pineconeIndex, sopKind,
                   sopPending, sopVector, encodersBuilt, encoderFailures, clientsBuilt,
                   externalCalls,
                   sopCalls>>

SopNext ==
    \E t \in Tasks :
        \/ \E ctor, index \in BOOLEAN : StartRetrieve(t, ctor, index)
        \/ StartEmbed(t)
        \/ InitThrew(t)
        \/ IndexUnavailable(t)
        \/ InitDone(t)
        \/ PipelineOk(t)
        \/ PipelineFail(t)
        \/ CallEncoder(t)
        \/ EncoderFail(t)
        \/ EmbedReturn(t)
        \/ QueryIndex(t)
        \/ QueryFail(t)
        \/ \E q \in {Query(TopK), NoMatchesField} : QueryOk(t, q)

\* ----------------------------------- sopRetriever.ts: formatSopsForPrompt
\* the SOPs handed to formatSopsForPrompt: id and score are optional
ScoreZero == [k |-> "number", n |-> 0]
SopInputs == [text : {EmptyStr, Str(<<"t">>)},
              id : {Undefined, EmptyStr, Str(<<"i">>)},
              score : {Undefined, ScoreZero}]

\* the pieces of the returned string
OpenTag == [k |-> "open", s |-> <<"\n", "<relevant_sops>", "\n">>]
CloseTag == [k |-> "close", s |-> <<"\n", "</relevant_sops>", "\n">>]
BlankLine == [k |-> "join", s |-> <<"\n", "\n">>]
Heading(n) == [k |-> "heading", s |-> <<"### Relevant SOP ", n>>]
IdSuffix(id) == [k |-> "id", s |-> <<" (ID: ">> \o id.v \o <<")">>]
ToFixed3(x) == <<x.n, ".", "0", "0", "0">>
RelevanceSuffix(score) ==
    [k |-> "relevance", s |-> <<" (relevance: ">> \o ToFixed3(score) \o <<")">>]
Body(text) == [k |-> "text", s |-> <<"\n", "\n">> \o text.v]

\* the heading numbers from 0 as the array index does
OrdinalZeroBased(index) == index

\* `index + 1` of line 185, index counting from 0
Ordinal(index) == index + 1

\* lines 184-188: one SOP, at array index `index`
Entry(sop, index) ==
    <<Heading(Ordinal(index))>>
    \o (IF Truthy(sop.id) THEN <<IdSuffix(sop.id)>> ELSE <<>>)
    \o (IF sop.score # Undefined THEN <<RelevanceSuffix(sop.score)>> ELSE <<>>)
    \o <<Body(sop.text)>>

\* .join('\n\n') over the entries from position i on
RECURSIVE JoinEntries(_, _)
JoinEntries(sops, i) ==
    IF i > Len(sops) THEN <<>>
    ELSE Entry(sops[i], i - 1)
         \o (IF i < Len(sops) THEN <<BlankLine>> ELSE <<>>)
         \o JoinEntries(sops, i + 1)

\* formatSopsForPrompt (lines 178-196)
formatSopsForPrompt(sops) ==
    IF Len(sops) = 0 THEN <<>>
    ELSE <<OpenTag>> \o JoinEntries(sops, 1) \o <<CloseTag>>

FmtIdle ==
    /\ fmtSops = <<>>
    /\ fmtOut = <<>>
    /\ fmtPc = "idle"

FmtInit ==
    /\ fmtSops \in SeqUpTo(SopInputs, MaxSops)
    /\ fmtOut = <<>>
    /\ fmtPc = "called"

\* the call returns
Format ==
    /\ fmtPc = "called"
    /\ fmtOut' = formatSopsForPrompt(fmtSops)
    /\ fmtPc' = "returned"
    /\ UNCHANGED <<botVars, sopVars, fmtSops>>

FmtNext == Format

\* the retriever is not in use
SopIdle ==
    /\ SopInit
    /\ apiKey = <<"k">>
    /\ indexSize = 0

\* the bot is not in use
BotIdle ==
    /\ BotInit
    /\ ~debug
    /\ bedrockRetries = MaxRetries

Init == BotInit /\ SopIdle /\ FmtIdle
Next == BotNext
Spec == Init /\ [][Next]_vars

\* every send attempt settles: client.send rejects and p-retry retries or gives
\* up, or it resolves and the call returns with the response (a SendOk step)
SendSettles ==
    /\ botPc = "awaitSend"
    /\ (SendRetry \/ SendExhausted \/ (botPc' = "returned" /\ response' # NoResponse))
FairSpec == Spec /\ WF_vars(SendSettles)

SopSpecInit == SopInit /\ BotIdle /\ FmtIdle
SopSpec == SopSpecInit /\ [][SopNext]_vars

FmtSpecInit == FmtInit /\ BotIdle /\ SopIdle
FmtSpec == FmtSpecInit /\ [][FmtNext]_vars

\* ------------------------------------------------- bot.ts: claim vocabulary
Returned == botPc = "returned"

\* the content items the service returned (none without a message or content)
Content == IF response = NoResponse THEN <<>> ELSE response.content

IsText(item) == item.k = "text"
IsTool(item) == item.k = "toolUse"

\* in-order concatenation of the text fragments of c, empty ones included
RECURSIVE ConcatTexts(_)
ConcatTexts(c) ==
    IF c = <<>> THEN <<>>
    ELSE (IF IsText(Head(c)) THEN Head(c).text.v ELSE <<>>) \o ConcatTexts(Tail(c))

\* position of the last tool-call item of c, 0 if there is none
LastTool(c) ==
    IF \E i \in 1..Len(c) : IsTool(c[i])
    THEN CHOOSE i \in 1..Len(c) : IsTool(c[i]) /\ \A j \in (i + 1)..Len(c) : ~IsTool(c[j])
    ELSE 0

Serializes(item) == JSONstringify(item.input).ok
Serialized(item) == JSONstringify(item.input).val

After(c, k) == SubSeq(c, k + 1, Len(c))

\* what the caller should see for content c: the last tool-call's serialized input
\* (empty text when serializing it threw), then the text fragments after it
ExpectedText(c) ==
    LET k == LastTool(c)
        base == IF k = 0 THEN EmptyStr
                ELSE IF Serializes(c[k]) THEN Serialized(c[k]) ELSE EmptyStr
        tail == ConcatTexts(After(c, k))
    IN  IF tail = <<>> THEN base ELSE Str(ToStringJS(base) \o tail)

ResponseIds == [parentMessageId |-> response.requestId, conversationId |-> response.cfId]

\* ------------------------------------------------------------------ claims

\* C1 as stated: chat never raises, and on every failure path (no response obtained,
\* an exception leaving chat_, or a serialization failure during normalization) the
\* result has empty text and absent identifiers.
C1_EveryFailureEmpty ==
    /\ ~raised
    /\ (Returned /\ (response = NoResponse \/ escaped \/ serializationFailed))
         => res = EmptyResult

\* C1 amended: chat never raises; when no response was obtained (retries exhausted,
\* or an exception left chat_) the result has empty text and absent identifiers;
\* a serialization failure caught inside normalization keeps the identifiers of
\* the response that was received.
C1_NeverRaises ==
    /\ ~raised
    /\ (Returned /\ (response = NoResponse \/ escaped)) => res = EmptyResult
    /\ (Returned /\ serializationFailed) => res.ids = ResponseIds

C1_Witness ==
    /\ Returned /\ escaped /\ exhaustedBefore /\ message # <<>>
    /\ res = EmptyResult /\ ~raised

\* C2: a call with an empty message returns empty text and absent identifiers
\* and makes no send attempt.
C2_EmptyMessageNoSend ==
    (botPc # "idle" /\ message = <<>>) =>
        /\ Returned
        /\ res = EmptyResult
        /\ attempts = 0
        /\ commandParams = NoParams

C2_Witness == Returned /\ message = <<>> /\ exhaustedBefore /\ attempts = 0

\* C3: a call makes at most bedrockRetries + 1 send attempts, none after the
\* attempt that succeeds, and every call starts with a fresh budget: it gives up
\* only after exactly bedrockRetries + 1 attempts of its own.
C3_RetryBudget ==
    [][/\ attempts' <= bedrockRetries + 1
       /\ (botPc # "awaitSend" /\ botPc' = "awaitSend") => attempts' = 1
       /\ (botPc = "awaitSend" /\ botPc' = "returned") => attempts' = attempts
       /\ (botPc = "awaitSend" /\ botPc' = "returned" /\ response' = NoResponse)
            => attempts = bedrockRetries + 1
       /\ (botPc = "awaitSend" /\ botPc' = "awaitSend") => attempts' = attempts + 1
      ]_vars

C3_Witness ==
    /\ Returned /\ exhaustedBefore /\ response # NoResponse
    /\ bedrockRetries = MaxRetries /\ attempts = bedrockRetries + 1

\* C4: when every content item is a text fragment, the result text is the
\* in-order concatenation of the fragments.
C4_TextOnlyConcat ==
    (Returned /\ response # NoResponse /\ \A i \in 1..Len(Content) : IsText(Content[i]))
        => res.text = Str(ConcatTexts(Content))

C4_Witness ==
    /\ Returned /\ response # NoResponse
    /\ Content = <<TextItem(<<"x">>), TextItem(<<>>), TextItem(<<"y">>)>>
    /\ res.text = Str(<<"x", "y">>)

\* C5 as stated: whenever a text item is followed by a tool-call item, the result
\* text equals the serialized input of the last tool-call of the response.
C5_ToolCallIsResult ==
    (/\ Returned /\ response # NoResponse /\ response.message
     /\ \E i, j \in 1..Len(Content) : i < j /\ IsText(Content[i]) /\ IsTool(Content[j])
     /\ Serializes(Content[LastTool(Content)]))
        => res.text = Serialized(Content[LastTool(Content)])

\* C5 amended: when the response holds a tool-call, the serialization of the last
\* tool-call succeeds and no non-empty text fragment follows it, the result text
\* equals its serialized input: every earlier text fragment and every earlier
\* tool-call is discarded.
C5_LastToolCallWins ==
    (/\ Returned /\ response # NoResponse /\ response.message
     /\ LastTool(Content) > 0
     /\ Serializes(Content[LastTool(Content)])
     /\ ConcatTexts(After(Content, LastTool(Content))) = <<>>)
        => res.text = Serialized(Content[LastTool(Content)])

C5_Witness ==
    /\ Returned /\ response # NoResponse
    /\ Content = <<TextItem(<<"x">>), ToolUseItem(Undefined), ToolUseItem(JsonObject)>>
    /\ res.text = Str(<<"{", "\"", "a", "\"", ":", "1", "}">>)

\* C6: when serializing a tool-call's input throws, chat does not raise, the text
\* accumulated up to and including that item is empty, and the remaining items
\* are processed as usual.
C6_SerializationFailureResets ==
    (Returned /\ response # NoResponse /\ response.message) =>
        \A k \in 1..Len(Content) :
            (IsTool(Content[k]) /\ ~Serializes(Content[k])) =>
                /\ ~raised
                /\ res.text = ExpectedText(After(Content, k))

C6_Witness ==
    /\ Returned /\ response # NoResponse /\ serializationFailed
    /\ Content = <<TextItem(<<"x">>), ToolUseItem(JsonCyclic), TextItem(<<"y">>)>>
    /\ res.text = Str(<<"y">>)

\* C7: the result's identifiers are the response's requestId and cfId whenever a
\* response was received, and both are absent when no response was received.
C7_IdsFromResponse ==
    Returned =>
        /\ response # NoResponse => res.ids = ResponseIds
        /\ response = NoResponse => res.ids = NoIds

C7_Witness ==
    /\ Returned /\ response # NoResponse
    /\ response.requestId = Str(<<"r">>) /\ response.cfId = Undefined
    /\ res.ids.parentMessageId = Str(<<"r">>) /\ res.ids.conversationId = Undefined

\* C8 as stated: every call has logged its timing when it returns.
C8_TimingAlwaysLogged == Returned => timingLogged

\* C8 amended: a call that sent the request has logged its timing when it returns,
\* on success and on retry exhaustion; a call that returns before sending (empty
\* message) has not.
C8_TimingLoggedIffSent == Returned => (timingLogged <=> attempts >= 1)

C8_Witness ==
    /\ Returned /\ response = NoResponse /\ attempts = bedrockRetries + 1
    /\ bedrockRetries > 0 /\ timingLogged

\* C9: getRelevantSops never raises, and it returns the empty sequence whenever
\* the index is unavailable or a step (client initialization, encoder
\* construction, embedding, the query) fails.
C9_RetrieveNeverRaises ==
    \A t \in Tasks :
        sopKind[t] = "retrieve" =>
            /\ ~sopRaised[t]
            /\ (sopPc[t] = "done" /\ sopFailure[t] # "none") => sopResult[t] = <<>>

C9_Witness ==
    \E t \in Tasks :
        /\ sopKind[t] = "retrieve" /\ sopPc[t] = "done"
        /\ sopFailure[t] = "query" /\ indexSize > 0 /\ encodersBuilt > 0
        /\ sopResult[t] = <<>> /\ ~sopRaised[t]

\* C10: getRelevantSops returns at most 3 SOPs, and they are the matches of the
\* query response in the order of the response, best score first.
C10_AtMostThreeInOrder ==
    \A t \in Tasks :
        (sopKind[t] = "retrieve" /\ sopPc[t] = "done") =>
            /\ Len(sopResult[t]) <= 3
            /\ (sopFailure[t] = "none" /\ sopQueried[t] \notin {Null, NoMatchesField}) =>
                 /\ Len(sopResult[t]) = Len(sopQueried[t].matches)
                 /\ \A i \in 1..Len(sopResult[t]) :
                        /\ sopResult[t][i].id = sopQueried[t].matches[i].id
                        /\ sopResult[t][i].score = sopQueried[t].matches[i].score
                 /\ \A i, j \in 1..Len(sopResult[t]) :
                        i < j => sopResult[t][i].score > sopResult[t][j].score

C10_Witness ==
    \E t \in Tasks :
        /\ sopKind[t] = "retrieve" /\ sopPc[t] = "done" /\ sopFailure[t] = "none"
        /\ indexSize > 3
        /\ Len(sopResult[t]) = 3
        /\ sopResult[t][1].id = 1 /\ sopResult[t][3].id = 3
        /\ sopResult[t][2].text = EmptyStr

\* ------------------------------------------ sopRetriever.ts: claim vocabulary
\* task t enters getRelevantSops in this step, which runs initializePinecone
CallsInitialize(t) == sopPc[t] # "afterInit" /\ sopPc'[t] = "afterInit"

\* how often step s was started in the current call of task t
Started(t, s) == Cardinality({i \in 1..Len(sopSteps[t]) : sopSteps[t][i] = s})

\* C11: with no credential configured, initializePinecone throws to its caller
\* before a client is constructed and before any external call is made, and
\* leaves pineconeClient and pineconeIndex unset, in every call anew.
C11_MissingCredentialRaises ==
    [][\A t \in Tasks :
          (CallsInitialize(t) /\ apiKey = <<>>) =>
              /\ sopPending'[t] = "thrown"
              /\ pineconeClient' = Null /\ pineconeIndex' = Null
              /\ clientsBuilt' = 0
              /\ externalCalls' = externalCalls
      ]_vars

C11_Witness ==
    \E t \in Tasks :
        /\ apiKey = <<>> /\ sopCalls > 1
        /\ sopPc[t] = "afterInit" /\ sopPending[t] = "thrown"
        /\ pineconeClient = Null /\ pineconeIndex = Null /\ clientsBuilt = 0

\* C12: the encoder and the index client are each constructed at most once, in
\* every interleaving of the calls, and a singleton that is set is never replaced.
C12_CreatedAtMostOnce ==
    [][/\ encodersBuilt' <= 1
       /\ clientsBuilt' <= 1
       /\ embedder # Null => embedder' = embedder
       /\ pineconeClient # Null => pineconeClient' = pineconeClient
      ]_vars

\* C13: a rejected encoder construction is raised to the caller of embedText and
\* leaves the encoder singleton as it was; a call that finds it unset attempts
\* the construction again, and once a construction succeeded every call uses
\* the encoder without constructing.
C13_ConstructionNotPoisoned ==
    [][\A t \in Tasks :
          /\ (sopPc[t] = "awaitPipeline" /\ sopPc'[t] = "done") =>
                /\ embedder' = embedder
                /\ encodersBuilt' = encodersBuilt
                /\ sopKind[t] = "embed" => sopRaised'[t]
          /\ (sopPc[t] \in {"idle", "done"} /\ sopPc'[t] \notin {"idle", "done"}
                /\ sopKind'[t] = "embed") =>
                /\ embedder = Null => sopPc'[t] = "awaitPipeline"
                /\ embedder # Null => sopPc'[t] = "afterInitEmbedder"
          /\ (sopPc[t] = "awaitPipeline" /\ sopPc'[t] = "afterInitEmbedder") =>
                embedder' # Null
          /\ (sopPc[t] # "awaitEmbed" /\ sopPc'[t] = "awaitEmbed") =>
                embedder # Null /\ sopVector'[t].by = embedder.n /\ embedder.n > 0
      ]_vars

\* one task alone: a rejected construction, a successful one, then a call that
\* embeds with the encoder without constructing
C13_Witness ==
    \E t \in Tasks :
        /\ \A u \in Tasks \ {t} : sopKind[u] = "none"
        /\ encoderFailures = 1 /\ encodersBuilt = 1 /\ sopCalls = 3
        /\ sopKind[t] = "embed" /\ sopPc[t] = "done" /\ ~sopRaised[t]
        /\ sopSteps[t] = <<"embed">>
        /\ sopResult[t] = <<[k |-> "vector", by |-> 1]>>

\* ------------------------------------------------ formatSopsForPrompt: claims
IsHeading(piece) == piece.k = "heading"
IsTag(piece) == piece.k \in {"open", "close"}

\* C14: formatSopsForPrompt returns the empty string for no SOPs; otherwise the
\* result holds exactly one heading per SOP, numbered 1..n in input order, starts
\* with the opening tag and ends with the closing tag, which occur nowhere else.
C14_FormatHeadingsAndTags ==
    fmtPc = "returned" =>
        /\ Len(fmtSops) = 0 => fmtOut = <<>>
        /\ Len(fmtSops) > 0 =>
             /\ SelectSeq(fmtOut, IsHeading)
                  = [i \in 1..Len(fmtSops) |->
                       [k |-> "heading", s |-> <<"### Relevant SOP ", i>>]]
             /\ fmtOut[1].s = <<"\n", "<relevant_sops>", "\n">>
             /\ fmtOut[Len(fmtOut)].s = <<"\n", "</relevant_sops>", "\n">>
             /\ Len(SelectSeq(fmtOut, IsTag)) = 2

C14_Witness ==
    /\ fmtPc = "returned" /\ Len(fmtSops) = 3
    /\ fmtSops[1].id = Undefined /\ fmtSops[2].id = EmptyStr /\ fmtSops[3].id = Str(<<"i">>)
    /\ fmtSops[2].score = ScoreZero
    /\ Len(SelectSeq(fmtOut, IsHeading)) = 3
    /\ fmtOut[Len(fmtOut) - 1].s = <<"\n", "\n">> \o fmtSops[3].text.v

\* C15 as stated: getRelevantSops gives up on a failing embedding call or index
\* query only after bedrockRetries + 1 attempts of that step.
C15_RetrievalRetried ==
    \A t \in Tasks :
        (sopKind[t] = "retrieve" /\ sopPc[t] = "done") =>
            /\ sopFailure[t] = "query" => Started(t, "query") = bedrockRetries + 1
            /\ sopFailure[t] = "embed" => Started(t, "embed") = bedrockRetries + 1

\* C15 amended: nothing is retried in getRelevantSops: the first rejected
\* embedding call or index query ends the call with the empty sequence, and no
\* step is started more than once in a call, whatever the retry budget.
C15_RetrievalNotRetried ==
    \A t \in Tasks :
        /\ \A s \in {"init", "pipeline", "embed", "query", "map"} : Started(t, s) <= 1
        /\ (sopKind[t] = "retrieve" /\ sopPc[t] = "done"
              /\ sopFailure[t] \in {"query", "embed", "pipeline"}) =>
                 sopResult[t] = <<>>

C15_Witness ==
    \E t \in Tasks :
        /\ bedrockRetries > 0
        /\ sopKind[t] = "retrieve" /\ sopPc[t] = "done" /\ sopFailure[t] = "query"
        /\ sopSteps[t] = <<"init", "embed", "query">>
        /\ sopResult[t] = <<>>

IsPrefix(a, b) == Len(a) <= Len(b) /\ a = SubSeq(b, 1, Len(a))

\* C16: a getRelevantSops call starts its steps in the order client
\* initialization, (encoder construction,) embedding, query with topK = 3,
\* mapping; after a failed step or an unavailable index no later step is started.
C16_StepOrder ==
    \A t \in Tasks :
        sopKind[t] = "retrieve" =>
            /\ \/ IsPrefix(sopSteps[t], <<"init", "embed", "query", "map">>)
               \/ IsPrefix(sopSteps[t], <<"init", "pipeline", "embed", "query", "map">>)
            /\ sopSteps[t] # <<>>
            /\ Len(sopSteps[t]) > 1 => (sopPending[t] = "ok" /\ pineconeIndex # Null)
            /\ sopPc[t] = "done" =>
                 /\ sopFailure[t] \in {"init", "noIndex"} => sopSteps[t] = <<"init">>
                 /\ sopFailure[t] \in {"pipeline", "embed", "query"} =>
                      sopSteps[t][Len(sopSteps[t])] = sopFailure[t]
                 /\ sopFailure[t] = "none" => sopSteps[t][Len(sopSteps[t])] = "map"
            /\ (Started(t, "map") = 1 /\ sopQueried[t] # NoMatchesField) =>
                 Len(sopQueried[t].matches) = (IF indexSize < 3 THEN indexSize ELSE 3)

C16_Witness ==
    \E t \in Tasks :
        /\ sopKind[t] = "retrieve" /\ sopPc[t] = "done" /\ sopFailure[t] = "none"
        /\ sopSteps[t] = <<"init", "pipeline", "embed", "query", "map">>
        /\ Len(sopResult[t]) = 3

\* C17: provided every send attempt settles, a chat call that has sent the
\* request returns, for every retry budget.
C17_EveryCallReturns == (botPc = "awaitSend") ~> (botPc = "returned")

C17_Witness ==
    /\ botPc = "awaitSend" /\ bedrockRetries = MaxRetries
    /\ attempts = bedrockRetries + 1 /\ exhaustedBefore

\* the client was constructed and acquiring the index handle failed
Poisoned == pineconeClient # Null /\ pineconeIndex = Null

\* C19: a set index handle implies a set client; when the client was constructed
\* and pineconeClient.index() threw, the client stays set and the index unset
\* from then on, no later call constructs again, and every getRelevantSops call
\* returns the empty sequence having started nothing but the initialization.
C19_IndexPoisoned ==
    [][/\ pineconeIndex' # Null => pineconeClient' # Null
       /\ (clientsBuilt' > clientsBuilt /\ pineconeIndex' = Null) => pineconeClient' # Null
       /\ Poisoned =>
            /\ pineconeClient' = pineconeClient /\ pineconeIndex' = Null
            /\ clientsBuilt' = clientsBuilt
            /\ \A t \in Tasks : CallsInitialize(t) => sopPending'[t] = "ok"
       /\ (pineconeClient' # Null /\ pineconeIndex' = Null) =>
            \A t \in Tasks :
                sopKind'[t] = "retrieve" =>
                    /\ sopPc'[t] \in {"afterInit", "done"}
                    /\ sopSteps'[t] = <<"init">>
                    /\ sopPc'[t] = "done" => (sopResult'[t] = <<>> /\ ~sopRaised'[t])
      ]_vars

\* the call that constructed the client has returned, and a later call has come
\* back empty at the test of the index
C19_Witness ==
    \E t, u \in Tasks :
        /\ t # u /\ Poisoned /\ clientsBuilt = 1 /\ apiKey # <<>>
        /\ sopKind[t] = "retrieve" /\ sopPc[t] = "done" /\ sopFailure[t] = "init"
        /\ sopKind[u] = "retrieve" /\ sopPc[u] = "done" /\ sopFailure[u] = "noIndex"
        /\ sopResult[u] = <<>> /\ sopSteps[u] = <<"init">>

\* the text a serialized tool-call input contributes: nothing when JSON.stringify
\* threw or returned no string
SerializedText(item) ==
    IF Serializes(item) /\ Serialized(item).k = "string" THEN Serialized(item).v ELSE <<>>

\* C18: for content that holds a tool-call, the result text is the serialized
\* input of the last tool-call followed by the text fragments after it, in order.
C18_TextAfterToolKept ==
    (Returned /\ response # NoResponse /\ response.message /\ LastTool(Content) > 0) =>
        res.text = Str(SerializedText(Content[LastTool(Content)])
                         \o ConcatTexts(After(Content, LastTool(Content))))

\* C20: the text of every result chat returns is a string.
C20_TextIsString == Returned => res.text.k = "string"

====
